---- MODULE Spec2Model ----
(***************************************************************************)
(* ChatZhipuAI (libs/community/langchain_community/chat_models/zhipuai.py) *)
(* as a state machine: one adapter instance, one invocation in flight.     *)
(*                                                                         *)
(* Python values are modelled as follows.                                  *)
(*   Optional[T]   None is <<>>, a present value v is <<v>>                *)
(*   dict          a function on its keys (a record)                       *)
(*   list          a sequence                                              *)
(*   str           a string; concatenation is \o                           *)
(*   exception     a record [kind |-> "raised", error |-> <class name>]    *)
(***************************************************************************)
EXTENDS Naturals, Sequences, FiniteSets, TLC

VARIABLES
    cfg,                  \* the fields of the ChatZhipuAI instance
    pc,                   \* where the invocation in flight stands
    path,                 \* which entry point the invocation came through
    args,                 \* the stop, stream and **kwargs arguments it was given
    run_manager,          \* whether the invocation was given a run_manager
    request,              \* the parameter set handed to completion_with_retry
    attempts,             \* outcome of each provider call of this invocation
    raw_response,         \* what the provider returned to a non-streaming call
    frames,               \* raw frames taken from the provider's iterator so far
    default_chunk_class,  \* the local of _stream of that name
    emitted,              \* chunks _stream has yielded, in order
    reported,             \* chunks handed to run_manager.on_llm_new_token, in order
    result                \* what the invocation returned or raised

vars == <<cfg, pc, path, args, run_manager, request, attempts, raw_response, frames,
          default_chunk_class, emitted, reported, result>>

---------------------------------------------------------------------------
(* Optional values and dicts                                               *)

None == <<>>
Some(v) == <<v>>
IsNone(o) == o = <<>>
Val(o) == o[1]

\* {**a, **b}: keys of b win
Merge(a, b) ==
    [k \in (DOMAIN a) \cup (DOMAIN b) |-> IF k \in DOMAIN b THEN b[k] ELSE a[k]]

EmptyDict == [k \in {} |-> 0]

---------------------------------------------------------------------------
(* Bounds of the model                                                     *)

MaxRetries == 1     \* max_retries is drawn from 0..MaxRetries
MaxFrames == 2      \* frames a provider iterator hands out at most
MaxOutputs == 3     \* entries of an llm_outputs list at most

---------------------------------------------------------------------------
(* Configuration                                                           *)

DefaultModelName == "glm-4"
DefaultTemperature == "0.95"
DefaultTopP == "0.7"
DefaultMaxRetries == 1

ModelNames == {"glm-4", "glm-3-turbo"}

ChatZhipuAI(model_name, streaming, max_retries, max_tokens) ==
    [model_name  |-> model_name,
     temperature |-> DefaultTemperature,
     top_p       |-> DefaultTopP,
     max_tokens  |-> max_tokens,
     max_retries |-> max_retries,
     streaming   |-> streaming]

\* the property of that name: the parameter set built from the configuration
_default_params(self) ==
    LET params == [model       |-> self.model_name,
                   stream      |-> self.streaming,
                   temperature |-> self.temperature,
                   top_p       |-> self.top_p]
    IN  IF ~IsNone(self.max_tokens)
        THEN Merge(params, [max_tokens |-> Val(self.max_tokens)])
        ELSE params

Raised(error) == [kind |-> "raised", error |-> error]

\* _create_message_dicts: the params it returns, or the ValueError it raises.
\* The message dicts (convert_message_to_dict of each message) depend on
\* neither stop nor params.
\* faulty variant: the stop argument is never attached
CreateMessageDictsNoAttach(self, stop) ==
    LET params == _default_params(self)
    IN  IF ~IsNone(stop) /\ "stop" \in DOMAIN params
        THEN Raised("ValueError")
        ELSE [kind |-> "ok", params |-> params]

_create_message_dicts(self, stop) ==
    LET params == _default_params(self)
    IN  IF ~IsNone(stop)
        THEN IF "stop" \in DOMAIN params
             THEN Raised("ValueError")
             ELSE [kind |-> "ok", params |-> Merge(params, [stop |-> Val(stop)])]
        ELSE [kind |-> "ok", params |-> params]

---------------------------------------------------------------------------
(* Retry policy                                                            *)

TransientErrors ==
    {"APITimeoutError", "ZhipuAIError", "APIRequestFailedError",
     "APIReachLimitError", "APIInternalError"}

\* an exception that is none of the provider's error classes
OtherErrors == {"RuntimeError"}

Outcomes == {"ok"} \cup TransientErrors \cup OtherErrors

\* _create_retry_decorator: what it hands to create_base_retry_decorator
\* faulty variant: the rate-limit error is missing from the list
RetryDecoratorNoRateLimit(llm) ==
    [error_types |-> TransientErrors \ {"APIReachLimitError"},
     max_retries |-> llm.max_retries]

_create_retry_decorator(llm) ==
    [error_types |-> TransientErrors, max_retries |-> llm.max_retries]

\* create_base_retry_decorator: after `made` attempts, the last of which raised
\* `error`, whether another attempt follows (max_retries retries, that is
\* max_retries + 1 attempts in all)
create_base_retry_decorator(decorator, made, error) ==
    /\ error \in decorator.error_types
    /\ made < decorator.max_retries + 1

---------------------------------------------------------------------------
(* Response deserialization (non-streaming)                                *)

Get(d, k) == IF k \in DOMAIN d THEN d[k] ELSE None

\* convert_dict_to_message: the message variant of a role
convert_dict_to_message(m) ==
    LET role == m.role
        cls == CASE role = "user"      -> "HumanMessage"
                 [] role = "assistant" -> "AIMessage"
                 [] role = "system"    -> "SystemMessage"
                 [] role = "function"  -> "FunctionMessage"
                 [] role = "tool"      -> "ToolMessage"
                 [] OTHER              -> "ChatMessage"
    IN  [cls |-> cls, content |-> m.content]

ChatResult(generations, llm_output) ==
    [kind |-> "ChatResult", generations |-> generations, llm_output |-> llm_output]

\* faulty variant: response.get("choices", []) in place of response["choices"]
CreateChatResultLenient(self, response) ==
    LET choices == IF "choices" \in DOMAIN response THEN response.choices ELSE <<>>
    IN  ChatResult(
            [i \in 1..Len(choices) |->
                [message |-> convert_dict_to_message(choices[i].message),
                 generation_info |-> Some([finish_reason |-> Get(choices[i], "finish_reason")])]],
            Some([token_usage |-> Get(response, "usage"),
                  model_name  |-> self.model_name]))

_create_chat_result(self, response) ==
    IF "choices" \notin DOMAIN response
    THEN Raised("KeyError")
    ELSE ChatResult(
            [i \in 1..Len(response.choices) |->
                [message |-> convert_dict_to_message(response.choices[i].message),
                 generation_info |->
                    Some([finish_reason |-> Get(response.choices[i], "finish_reason")])]],
            Some([token_usage |-> Get(response, "usage"),
                  model_name  |-> self.model_name]))

---------------------------------------------------------------------------
(* Streaming: delta conversion                                             *)

\* _dict.get("content") or ""
ContentOf(_dict) ==
    LET c == Get(_dict, "content") IN IF IsNone(c) THEN "" ELSE Val(c)

\* _convert_delta_to_message_chunk: the chunk, or the KeyError of a missing key.
\* additional_kwargs (function_call, tool_calls) ride along with the assistant
\* variant and decide nothing; they are left out.
_convert_delta_to_message_chunk(_dict, default_class) ==
    LET role == Get(_dict, "role")
        content == ContentOf(_dict)
    IN  IF role = Some("user") \/ default_class = "HumanMessageChunk"
            THEN [cls |-> "HumanMessageChunk", content |-> content]
        ELSE IF role = Some("assistant") \/ default_class = "AIMessageChunk"
            THEN [cls |-> "AIMessageChunk", content |-> content]
        ELSE IF role = Some("system") \/ default_class = "SystemMessageChunk"
            THEN [cls |-> "SystemMessageChunk", content |-> content]
        ELSE IF role = Some("function") \/ default_class = "FunctionMessageChunk"
            THEN IF "name" \in DOMAIN _dict
                 THEN [cls |-> "FunctionMessageChunk", content |-> content]
                 ELSE Raised("KeyError")
        ELSE IF role = Some("tool") \/ default_class = "ToolMessageChunk"
            THEN IF "tool_call_id" \in DOMAIN _dict
                 THEN [cls |-> "ToolMessageChunk", content |-> content]
                 ELSE Raised("KeyError")
        ELSE IF (~IsNone(role) /\ Val(role) # "") \/ default_class = "ChatMessageChunk"
            THEN [cls |-> "ChatMessageChunk", content |-> content]
        ELSE [cls |-> default_class, content |-> content]

\* the generation_info _stream gives the chunk of a choice
GenerationInfo(raw_chunk, choice) ==
    LET finish_reason == Get(choice, "finish_reason")
    IN  IF ~IsNone(finish_reason)
        THEN Some([finish_reason |-> finish_reason,
                   token_usage   |-> Get(raw_chunk, "usage")])
        ELSE None

ChatGenerationChunk(message, generation_info) ==
    [message |-> message, generation_info |-> generation_info]

\* one pass of the loop body of _stream over raw_chunk:
\* "skip" (no choices), the chunk to yield, or the exception raised
\* faulty variant: a frame without choices is mapped to an empty chunk
StreamBodyEmptyChunk(raw_chunk, default_class) ==
    IF Len(raw_chunk.choices) = 0
    THEN [kind |-> "yield",
          chunk |-> ChatGenerationChunk([cls |-> default_class, content |-> ""], None)]
    ELSE LET choice == raw_chunk.choices[1]
             chunk == _convert_delta_to_message_chunk(choice.delta, default_class)
         IN  IF "kind" \in DOMAIN chunk
             THEN chunk
             ELSE [kind |-> "yield",
                   chunk |-> ChatGenerationChunk(chunk, GenerationInfo(raw_chunk, choice))]

StreamBody(raw_chunk, default_class) ==
    IF Len(raw_chunk.choices) = 0
    THEN [kind |-> "skip"]
    ELSE LET choice == raw_chunk.choices[1]
             chunk == _convert_delta_to_message_chunk(choice.delta, default_class)
         IN  IF "kind" \in DOMAIN chunk
             THEN chunk
             ELSE [kind |-> "yield",
                   chunk |-> ChatGenerationChunk(chunk, GenerationInfo(raw_chunk, choice))]

---------------------------------------------------------------------------
(* Streaming: folding a chunk sequence into one result                     *)

RECURSIVE ConcatContent(_)
ConcatContent(chunks) ==
    IF chunks = <<>> THEN ""
    ELSE chunks[1].message.content \o ConcatContent(Tail(chunks))

\* generate_from_stream: content concatenated in order under the first chunk's
\* variant, generation metadata from the terminal chunk; no chunk at all is an
\* error
generate_from_stream(chunks) ==
    IF chunks = <<>>
    THEN Raised("AssertionError")
    ELSE ChatResult(
            <<[message |-> [cls |-> chunks[1].message.cls,
                            content |-> ConcatContent(chunks)],
               generation_info |-> chunks[Len(chunks)].generation_info]>>,
            None)

\* lines 272-277 of _generate: the llm_output backfill
\* faulty variant: llm_output is left as the fold made it
BackfillSkipped(self, res) == res

Backfill(self, res) ==
    IF res.kind # "ChatResult" THEN res
    ELSE LET finish_message == res.generations[Len(res.generations)]
         IN  IF ~IsNone(finish_message.generation_info)
             THEN [res EXCEPT !.llm_output =
                        Some([token_usage |-> Val(finish_message.generation_info).token_usage,
                              model_name  |-> self.model_name])]
             ELSE res

---------------------------------------------------------------------------
(* Output aggregation                                                      *)

\* overall_token_usage after the inner loop over token_usage.items()
\* faulty variant: a field seen again replaces the running total
AddUsageOverwrite(overall, token_usage) == Merge(overall, token_usage)

AddUsage(overall, token_usage) ==
    [k \in (DOMAIN overall) \cup (DOMAIN token_usage) |->
        IF k \in DOMAIN token_usage
        THEN IF k \in DOMAIN overall THEN overall[k] + token_usage[k]
             ELSE token_usage[k]
        ELSE overall[k]]

RECURSIVE OverallTokenUsage(_, _)
OverallTokenUsage(overall, llm_outputs) ==
    IF llm_outputs = <<>> THEN overall
    ELSE LET output == llm_outputs[1]
         IN  IF IsNone(output)
             THEN OverallTokenUsage(overall, Tail(llm_outputs))
             ELSE IF ~IsNone(Val(output).token_usage)
                  THEN OverallTokenUsage(AddUsage(overall, Val(Val(output).token_usage)),
                                         Tail(llm_outputs))
                  ELSE OverallTokenUsage(overall, Tail(llm_outputs))

_combine_llm_outputs(self, llm_outputs) ==
    [token_usage |-> OverallTokenUsage(EmptyDict, llm_outputs),
     model_name  |-> self.model_name]

---------------------------------------------------------------------------
(* Request building                                                        *)

\* lines 264-267 of _generate: only the first stop word is kept
CutOff(stop) ==
    IF ~IsNone(stop) /\ Len(Val(stop)) > 0 /\ Len(Val(stop)) > 1
    THEN Some(<<Val(stop)[1]>>)
    ELSE stop

\* lines 279-284 of _generate: the parameter set of the non-streaming call
\* faulty variant: the per-call stream override is not merged in
GenerateParamsDefaultsOnly(self, stop, stream, kwargs) ==
    LET md == _create_message_dicts(self, stop)
    IN  IF md.kind = "raised" THEN md
        ELSE [kind |-> "ok", params |-> Merge(md.params, kwargs)]

GenerateParams(self, stop, stream, kwargs) ==
    LET md == _create_message_dicts(self, stop)
    IN  IF md.kind = "raised" THEN md
        ELSE [kind |-> "ok",
              params |-> Merge(Merge(md.params,
                                     IF ~IsNone(stream) THEN [stream |-> Val(stream)]
                                     ELSE EmptyDict),
                               kwargs)]

\* lines 384-385 of _stream: the parameter set of the streaming call
StreamParams(self, stop, kwargs) ==
    LET md == _create_message_dicts(self, stop)
    IN  IF md.kind = "raised" THEN md
        ELSE [kind |-> "ok",
              params |-> Merge(Merge(md.params, kwargs), [stream |-> TRUE])]

---------------------------------------------------------------------------
(* Inputs                                                                  *)

Stops == {None, Some(<<>>), Some(<<"A">>), Some(<<"A", "B">>)}
StreamOverrides == {None, Some(TRUE), Some(FALSE)}
\* **kwargs of _generate: `stop` and `stream` are named parameters there
ExtraParams == {EmptyDict, [top_p |-> "0.5"]}
\* **kwargs of _stream called directly: `stream` is no named parameter there
StreamExtraParams == ExtraParams \cup {[stream |-> FALSE]}

Usage(n) == [total_tokens |-> n]

AssistantChoice ==
    [message |-> [role |-> "assistant", content |-> "a"],
     finish_reason |-> Some("stop")]

Responses ==
    {[usage |-> Some(Usage(1))],
     [choices |-> <<>>, usage |-> None],
     [choices |-> <<AssistantChoice>>, usage |-> Some(Usage(42))],
     [choices |-> <<AssistantChoice>>]}

DeltaRoles ==
    {None, Some("user"), Some("assistant"), Some("system"), Some("function"),
     Some("tool"), Some("critic")}

Frame(role, content, finish_reason, usage) ==
    [choices |-> <<[delta |-> [role |-> role, content |-> content],
                    finish_reason |-> finish_reason]>>,
     usage |-> usage]

EmptyFrame == [choices |-> <<>>, usage |-> None]

RawFrames ==
    {EmptyFrame}
    \cup {Frame(r, Some("a"), f, IF IsNone(f) THEN None ELSE Some(Usage(42))) :
            r \in DeltaRoles, f \in {None, Some("stop")}}
    \cup {Frame(None, Some("b"), None, None),
          Frame(None, Some("b"), Some("stop"), Some(Usage(42))),
          Frame(None, None, Some("stop"), Some(Usage(42))),
          Frame(Some("assistant"), Some("a"), Some("stop"), None)}

\* the frames of a plain assistant answer
PlainFrames ==
    {EmptyFrame,
     Frame(Some("assistant"), Some("a"), None, None),
     Frame(None, Some("b"), Some("stop"), Some(Usage(42)))}

UsageKeys == {"prompt_tokens", "total_tokens"}
TokenCounts == {3, 4}
TokenUsages == UNION {[K -> TokenCounts] : K \in SUBSET UsageKeys}

LlmOutputs ==
    {None, Some([token_usage |-> None, model_name |-> DefaultModelName])}
    \cup {Some([token_usage |-> Some(u), model_name |-> DefaultModelName]) :
            u \in TokenUsages}

---------------------------------------------------------------------------
(* The state machine                                                       *)

NoResult == [kind |-> "none"]

Fresh ==
    /\ pc = "idle"
    /\ path = "none"
    /\ args = EmptyDict
    /\ run_manager = FALSE
    /\ request = EmptyDict
    /\ attempts = <<>>
    /\ raw_response = None
    /\ frames = <<>>
    /\ default_chunk_class = "AIMessageChunk"
    /\ emitted = <<>>
    /\ reported = <<>>
    /\ result = NoResult

\* entering an invocation that built the parameter set r (or raised building it)
Enter(entry, stop, stream, kwargs, rm, r) ==
    /\ path' = entry
    /\ args' = [stop |-> stop, stream |-> stream, kwargs |-> kwargs]
    /\ run_manager' = rm
    /\ IF r.kind = "raised"
       THEN /\ pc' = "done"
            /\ result' = r
            /\ request' = EmptyDict
       ELSE /\ pc' = "retry"
            /\ result' = NoResult
            /\ request' = r.params
    /\ UNCHANGED <<cfg, attempts, raw_response, frames, default_chunk_class,
                   emitted, reported>>

\* _generate up to its call of the provider
_generate(stop, stream, kwargs, rm) ==
    /\ pc = "idle"
    /\ LET should_stream == IF ~IsNone(stream) THEN Val(stream) ELSE cfg.streaming
           stop1 == CutOff(stop)
       IN  IF should_stream
           THEN Enter("generate_stream", stop, stream, kwargs, rm,
                      StreamParams(cfg, stop1, kwargs))
           ELSE Enter("generate", stop, stream, kwargs, rm,
                      GenerateParams(cfg, stop1, stream, kwargs))

\* _stream iterated by a caller of its own, up to its call of the provider
_stream(stop, kwargs, rm) ==
    /\ pc = "idle"
    /\ Enter("stream", stop, None, kwargs, rm, StreamParams(cfg, stop, kwargs))

\* one call of client.chat.completions.create under the retry decorator
completion_with_retry(outcome, resp) ==
    /\ pc = "retry"
    /\ attempts' = Append(attempts, outcome)
    /\ IF outcome = "ok"
       THEN /\ pc' = IF path = "generate" THEN "responded" ELSE "iterating"
            /\ raw_response' = IF path = "generate" THEN Some(resp) ELSE None
            /\ result' = result
       ELSE IF create_base_retry_decorator(_create_retry_decorator(cfg),
                                           Len(attempts) + 1, outcome)
       THEN /\ pc' = "retry"
            /\ UNCHANGED <<raw_response, result>>
       ELSE /\ pc' = "done"
            /\ result' = Raised(outcome)
            /\ UNCHANGED raw_response
    /\ UNCHANGED <<cfg, path, args, run_manager, request, frames, default_chunk_class,
                   emitted, reported>>

\* line 286 of _generate
ReturnChatResult ==
    /\ pc = "responded"
    /\ pc' = "done"
    /\ result' = _create_chat_result(cfg, Val(raw_response))
    /\ UNCHANGED <<cfg, path, args, run_manager, request, attempts, raw_response, frames,
                   default_chunk_class, emitted, reported>>

\* lines 388-403 of _stream: the provider's iterator hands out raw_chunk
StreamFrame(raw_chunk) ==
    /\ pc = "iterating"
    /\ Len(frames) < MaxFrames
    /\ frames' = Append(frames, raw_chunk)
    /\ LET step == StreamBody(raw_chunk, default_chunk_class)
       IN  CASE step.kind = "skip" ->
                    UNCHANGED <<pc, default_chunk_class, emitted, result>>
             [] step.kind = "yield" ->
                    /\ pc' = "yielded"
                    /\ default_chunk_class' = step.chunk.message.cls
                    /\ emitted' = Append(emitted, step.chunk)
                    /\ UNCHANGED result
             [] OTHER ->
                    /\ pc' = "done"
                    /\ result' = step
                    /\ UNCHANGED <<default_chunk_class, emitted>>
    /\ UNCHANGED <<cfg, path, args, run_manager, request, attempts, raw_response, reported>>

\* lines 404-405 of _stream: the consumer asks for the next chunk and the
\* generator resumes after its yield
Callback ==
    IF run_manager THEN Append(reported, emitted[Len(emitted)]) ELSE reported

ResumeAfterYield ==
    /\ pc = "yielded"
    /\ pc' = "iterating"
    /\ reported' = Callback
    /\ UNCHANGED <<cfg, path, args, run_manager, request, attempts, raw_response, frames,
                   default_chunk_class, emitted, result>>

\* the provider's iterator is exhausted: _stream returns; under _generate the
\* chunks are folded and the result is returned (lines 270-277)
StreamExhausted ==
    /\ pc = "iterating"
    /\ pc' = "done"
    /\ result' = IF path = "generate_stream"
                 THEN Backfill(cfg, generate_from_stream(emitted))
                 ELSE [kind |-> "exhausted"]
    /\ UNCHANGED <<cfg, path, args, run_manager, request, attempts, raw_response, frames,
                   default_chunk_class, emitted, reported>>

\* a caller of _stream stops consuming: the suspended generator is closed
CloseStream ==
    /\ pc = "yielded"
    /\ path = "stream"
    /\ pc' = "done"
    /\ result' = [kind |-> "closed"]
    /\ UNCHANGED <<cfg, path, args, run_manager, request, attempts, raw_response, frames,
                   default_chunk_class, emitted, reported>>

\* the base class combines the llm_output of several results
CombineLlmOutputs(llm_outputs) ==
    /\ pc = "idle"
    /\ pc' = "done"
    /\ path' = "combine"
    /\ result' = [kind |-> "combined",
                  llm_outputs |-> llm_outputs,
                  llm_output |-> _combine_llm_outputs(cfg, llm_outputs)]
    /\ UNCHANGED <<cfg, args, run_manager, request, attempts, raw_response, frames,
                   default_chunk_class, emitted, reported>>

\* ... over any list of up to MaxOutputs outputs
Combine ==
    /\ pc = "idle"
    /\ \E n \in 0..MaxOutputs : \E llm_outputs \in [1..n -> LlmOutputs] :
          CombineLlmOutputs(llm_outputs)

\* the invocation is over; the instance is ready for the next one
Return ==
    /\ pc = "done"
    /\ pc' = "idle"
    /\ path' = "none"
    /\ args' = EmptyDict
    /\ run_manager' = FALSE
    /\ request' = EmptyDict
    /\ attempts' = <<>>
    /\ raw_response' = None
    /\ frames' = <<>>
    /\ default_chunk_class' = "AIMessageChunk"
    /\ emitted' = <<>>
    /\ reported' = <<>>
    /\ result' = NoResult
    /\ UNCHANGED cfg

---------------------------------------------------------------------------
(* Spec: every entry point, every configuration, plain provider frames     *)

Configs ==
    {ChatZhipuAI(DefaultModelName, s, r, t) :
        s \in BOOLEAN, r \in 0..MaxRetries, t \in {None, Some(256)}}

Init == cfg \in Configs /\ Fresh

Next ==
    \/ \E stop \in Stops, stream \in StreamOverrides, kwargs \in ExtraParams,
          rm \in BOOLEAN : _generate(stop, stream, kwargs, rm)
    \/ \E stop \in Stops, kwargs \in StreamExtraParams, rm \in BOOLEAN :
          _stream(stop, kwargs, rm)
    \/ \E outcome \in Outcomes, resp \in Responses :
          completion_with_retry(outcome, resp)
    \/ ReturnChatResult
    \/ \E raw_chunk \in PlainFrames : StreamFrame(raw_chunk)
    \/ ResumeAfterYield
    \/ StreamExhausted
    \/ CloseStream
    \/ Return

Spec == Init /\ [][Next]_vars

---------------------------------------------------------------------------
(* SpecStream: the streaming paths under the default retry limit, every    *)
(* shape of raw frame                                                      *)

StreamConfigs ==
    {ChatZhipuAI(m, TRUE, DefaultMaxRetries, None) : m \in ModelNames}

InitStream == cfg \in StreamConfigs /\ Fresh

NextStream ==
    \/ \E rm \in BOOLEAN : _generate(None, None, EmptyDict, rm)
    \/ \E rm \in BOOLEAN : _stream(None, EmptyDict, rm)
    \/ completion_with_retry("ok", [choices |-> <<>>])   \* the provider answers at once
    \/ \E raw_chunk \in RawFrames : StreamFrame(raw_chunk)
    \/ ResumeAfterYield
    \/ StreamExhausted
    \/ CloseStream
    \/ Return

SpecStream == InitStream /\ [][NextStream]_vars

---------------------------------------------------------------------------
(* SpecCombine: _combine_llm_outputs over every short list of outputs      *)

CombineConfigs ==
    {ChatZhipuAI(m, FALSE, DefaultMaxRetries, None) : m \in ModelNames}

InitCombine == cfg \in CombineConfigs /\ Fresh

NextCombine ==
    \/ Combine
    \/ Return

SpecCombine == InitCombine /\ [][NextCombine]_vars

---------------------------------------------------------------------------
(* Properties                                                              *)

Sent == Len(attempts) > 0     \* the request has gone to the provider
Streaming == path \in {"generate_stream", "stream"}
Last(q) == q[Len(q)]

\* C1: every request sent to the provider, on any call path, holds at most
\* one stop sequence.
C1_AtMostOneStopForwarded ==
    (Sent /\ "stop" \in DOMAIN request) => Len(request.stop) <= 1

\* the raw frames that carry a choice, in order
RECURSIVE WithChoices(_)
WithChoices(fs) ==
    IF fs = <<>> THEN <<>>
    ELSE IF Len(fs[1].choices) = 0 THEN WithChoices(Tail(fs))
         ELSE <<fs[1]>> \o WithChoices(Tail(fs))

\* the role-carryover rule: the role decides alone, and the previous variant
\* stands in only when no role is given
ConvertDeltaRoleFirst(_dict, default_class) ==
    LET role == Get(_dict, "role")
        content == ContentOf(_dict)
        cls == IF IsNone(role) THEN default_class
               ELSE CASE Val(role) = "user"      -> "HumanMessageChunk"
                      [] Val(role) = "assistant" -> "AIMessageChunk"
                      [] Val(role) = "system"    -> "SystemMessageChunk"
                      [] Val(role) = "function"  -> "FunctionMessageChunk"
                      [] Val(role) = "tool"      -> "ToolMessageChunk"
                      [] OTHER                   -> "ChatMessageChunk"
    IN  [cls |-> cls, content |-> content]

\* C2: each emitted chunk has the variant of its delta's role, or, when the
\* delta carries no role, the variant of the chunk emitted before it (the
\* assistant variant for the first chunk).
C2_RoleCarryover ==
    Streaming =>
        \A i \in 1..Len(emitted) :
            i <= Len(WithChoices(frames)) =>
                LET delta == WithChoices(frames)[i].choices[1].delta
                    previous == IF i = 1 THEN "AIMessageChunk"
                                ELSE emitted[i - 1].message.cls
                IN  emitted[i].message.cls = ConvertDeltaRoleFirst(delta, previous).cls

\* C3: with a run_manager, whenever the consumer holds chunk k (the generator
\* is suspended at its yield, or the consumer has stopped there), the callback
\* has been invoked for chunks 1..k, once each and in order.
C3_ReportedBeforeYield ==
    (Streaming /\ run_manager /\ (pc = "yielded" \/ result.kind = "closed"))
        => reported = emitted

StopGiven == IF path = "stream" THEN args.stop ELSE CutOff(args.stop)

\* C5: _create_message_dicts raises the ValueError when the default parameter
\* set defines `stop` and a non-empty stop is supplied; otherwise the supplied
\* stop is the `stop` of the parameter set.
C5_StopConflictOrAttached ==
    (path \in {"generate", "generate_stream", "stream"}) =>
        IF "stop" \in DOMAIN _default_params(cfg)
           /\ ~IsNone(StopGiven) /\ Val(StopGiven) # <<>>
        THEN result = Raised("ValueError") /\ ~Sent
        ELSE /\ result # Raised("ValueError")
             /\ ~IsNone(StopGiven) =>
                    ("stop" \in DOMAIN request /\ request.stop = Val(StopGiven))
             /\ IsNone(StopGiven) => "stop" \notin DOMAIN request

C5_Witness ==
    /\ path = "stream"
    /\ args.stop = Some(<<"A">>)
    /\ Sent
    /\ request.stop = <<"A">>

\* the text of a raw frame
FrameContent(f) ==
    IF Len(f.choices) = 0 THEN ""
    ELSE IF IsNone(f.choices[1].delta.content) THEN ""
         ELSE Val(f.choices[1].delta.content)

FrameFinish(f) ==
    IF Len(f.choices) = 0 THEN None ELSE f.choices[1].finish_reason

RECURSIVE FramesText(_)
FramesText(fs) ==
    IF fs = <<>> THEN "" ELSE FramesText(SubSeq(fs, 1, Len(fs) - 1)) \o FrameContent(Last(fs))

\* frames that end with a finish reason and a usage block, none finishing earlier
EndsWithFinish(fs) ==
    /\ fs # <<>>
    /\ ~IsNone(FrameFinish(Last(fs)))
    /\ ~IsNone(Last(fs).usage)
    /\ \A i \in 1..(Len(fs) - 1) : IsNone(FrameFinish(fs[i]))

\* C6: a streamed _generate over frames that end with a finish reason and a
\* usage block returns one generation with the frames' text in order and the
\* terminal finish reason, and an llm_output with the terminal usage and the
\* configured model name.
C6_StreamedResultBackfilled ==
    (path = "generate_stream" /\ pc = "done" /\ EndsWithFinish(frames)) =>
        /\ result.kind = "ChatResult"
        /\ Len(result.generations) = 1
        /\ result.generations[1].message.content = FramesText(frames)
        /\ ~IsNone(result.generations[1].generation_info)
        /\ Val(result.generations[1].generation_info).finish_reason
              = FrameFinish(Last(frames))
        /\ result.llm_output = Some([token_usage |-> Last(frames).usage,
                                     model_name  |-> cfg.model_name])

C6_Witness ==
    /\ path = "generate_stream"
    /\ pc = "done"
    /\ cfg.model_name = "glm-3-turbo"
    /\ Len(frames) = MaxFrames
    /\ EndsWithFinish(frames)
    /\ result.kind = "ChatResult"
    /\ result.generations[1].message.content = "ab"
    /\ result.llm_output = Some([token_usage |-> Some(Usage(42)),
                                 model_name  |-> "glm-3-turbo"])

\* C7: a response without "choices" makes _generate raise, and no provider
\* call follows the one that returned it.
C7_MissingChoicesRaisesOnce ==
    (path = "generate" /\ ~IsNone(raw_response)) =>
        /\ pc \in {"responded", "done"}
        /\ Last(attempts) = "ok"
        /\ \A i \in 1..(Len(attempts) - 1) : attempts[i] # "ok"
        /\ (pc = "done" /\ "choices" \notin DOMAIN Val(raw_response)) =>
                result.kind = "raised"

C7_Witness ==
    /\ path = "generate"
    /\ pc = "done"
    /\ ~IsNone(raw_response)
    /\ "choices" \notin DOMAIN Val(raw_response)
    /\ result = Raised("KeyError")
    /\ Len(attempts) = 2

\* the sum of field k over the present entries that have it
RECURSIVE SumOfKey(_, _)
SumOfKey(k, outs) ==
    IF outs = <<>> THEN 0
    ELSE SumOfKey(k, SubSeq(outs, 1, Len(outs) - 1))
         + (LET o == Last(outs)
            IN  IF ~IsNone(o) /\ ~IsNone(Val(o).token_usage)
                   /\ k \in DOMAIN Val(Val(o).token_usage)
                THEN Val(Val(o).token_usage)[k] ELSE 0)

KeysOf(outs) ==
    UNION {DOMAIN Val(Val(outs[i]).token_usage) :
             i \in {j \in 1..Len(outs) :
                      ~IsNone(outs[j]) /\ ~IsNone(Val(outs[j]).token_usage)}}

\* C8: _combine_llm_outputs skips absent entries, sums the token-usage fields
\* key by key over the present ones, and names the configured model.
C8_CombineSumsByKey ==
    result.kind = "combined" =>
        /\ result.llm_output.model_name = cfg.model_name
        /\ DOMAIN result.llm_output.token_usage = KeysOf(result.llm_outputs)
        /\ \A k \in KeysOf(result.llm_outputs) :
              result.llm_output.token_usage[k] = SumOfKey(k, result.llm_outputs)

C8_Witness ==
    /\ result.kind = "combined"
    /\ cfg.model_name = "glm-3-turbo"
    /\ result.llm_outputs =
          <<Some([token_usage |-> Some([total_tokens |-> 3]),
                  model_name |-> DefaultModelName]),
            None,
            Some([token_usage |-> Some([total_tokens |-> 4]),
                  model_name |-> DefaultModelName])>>
    /\ result.llm_output = [token_usage |-> [total_tokens |-> 7],
                            model_name |-> "glm-3-turbo"]

\* C9: the stream yields one chunk per frame with a choice, in frame order,
\* with generation metadata exactly on the frames with a finish reason; a frame
\* without choices yields nothing, raises nothing and does not end the stream.
C9_OneChunkPerNonEmptyFrame ==
    Streaming =>
        /\ result.kind = "raised" => (result.error = "AssertionError" /\ emitted = <<>>)
        /\ Len(emitted) = Len(WithChoices(frames))
        /\ \A i \in 1..Len(emitted) :
              /\ emitted[i].message.content = FrameContent(WithChoices(frames)[i])
              /\ IsNone(emitted[i].generation_info)
                    = IsNone(FrameFinish(WithChoices(frames)[i]))
        /\ (frames # <<>> /\ Len(Last(frames).choices) = 0 /\ result = NoResult)
              => pc = "iterating"

C9_Witness ==
    /\ path = "stream"
    /\ Len(frames) = 2
    /\ frames[1] = EmptyFrame
    /\ Len(frames[2].choices) = 1
    /\ Len(emitted) = 1
    /\ pc = "yielded"

\* C10: a request of a streaming path has stream = true, a request of the
\* non-streaming path has stream = false, and _generate takes the streaming
\* path exactly when the per-call override, or else the configured flag, says so.
C10_StreamFlagAgreesWithPath ==
    /\ (pc # "idle" /\ "stream" \in DOMAIN request) =>
            request.stream = Streaming
    /\ Sent => "stream" \in DOMAIN request
    /\ path \in {"generate", "generate_stream"} =>
            (path = "generate_stream")
                = (IF ~IsNone(args.stream) THEN Val(args.stream) ELSE cfg.streaming)

C10_Witness ==
    /\ path = "generate"
    /\ cfg.streaming
    /\ args.stream = Some(FALSE)
    /\ Sent
    /\ request.stream = FALSE

====
